---- MODULE Spec2Model ----
(***************************************************************************)
(* BinanceCandlesFeed (hummingbot/data_feed/candles_data_feed):            *)
(* a bounded deque of candles fed at the tail by the websocket listener    *)
(* (listen_for_subscriptions) and at the head by the historical backfill   *)
(* loop (fill_candles_loop), both launched by start_network as asyncio     *)
(* tasks.  Tasks interleave only at their awaits; every action below is    *)
(* the code between two awaits of one task.                                *)
(***************************************************************************)
EXTENDS Integers, Sequences, FiniteSets, Bags, TLC

\* max_records of the instance under study (the deque's maxlen).
N == 3
\* Largest open_time the exchange produces in the model; open_times are 1..MaxT.
MaxT == 4
\* Number of start_network calls explored (each launches one task of each kind).
MaxStarts == 2
\* The delay handed to _sleep on the retry paths.
RetryDelay == 1

VARIABLES
    candles,               \* self._candles, head first; a record is [t, c] (open_time, close)
    ws_ready_event,        \* self._ws_ready_event.is_set()
    fetch_candles_task,    \* self._fetch_candles_task (0 is None)
    fill_candles_task,     \* self._fill_candles_task: the number of the launch that
                           \* assigned it (0 before the first); written, never read
    listen_candles_task,   \* self._listen_candles_task (0 is None)
    fill,                  \* the fill_candles_loop tasks launched so far, a bag: no code
                           \* ever tells one of them from another
    listen,                \* the listen_for_subscriptions tasks launched so far
    delivered,             \* history: the records the listener appended, in order
    prepended              \* history: some backfill tick has inserted a record

vars == <<candles, ws_ready_event, fetch_candles_task, fill_candles_task,
          listen_candles_task, fill, listen, delivered, prepended>>

Min(a, b) == IF a < b THEN a ELSE b
Max(a, b) == IF a > b THEN a ELSE b

\* A candle is its open_time and its close (the other nine fields travel with
\* the close and are never read by the feed).  The first message the stream
\* sends for a candle carries close 1, a later update of the same candle
\* carries close 1 or 2; a historical row carries the final close 0.
LiveCloses == {1, 2}
Candle(t, c) == [t |-> t, c |-> c]
HistoryRow(t) == Candle(t, 0)

(***************************************************************************)
(* collections.deque(maxlen=N)                                             *)
(***************************************************************************)
\* Mutant of DequeAppend: a deque without maxlen.
DequeAppend_Unbounded(q, x) == Append(q, x)

\* Mutant of DequeAppend: a full deque discards its rightmost item.
DequeAppend_EvictsTail(q, x) ==
    IF Len(q) = N THEN Append(SubSeq(q, 1, N - 1), x) ELSE Append(q, x)

\* deque.append: a full deque discards its leftmost item.
DequeAppend(q, x) ==
    IF Len(q) = N THEN Append(Tail(q), x) ELSE Append(q, x)

\* deque.appendleft: a full deque discards its rightmost item.
DequeAppendLeft(q, x) ==
    IF Len(q) = N THEN <<x>> \o SubSeq(q, 1, N - 1) ELSE <<x>> \o q

\* deque.extendleft: appendleft of each item in iteration order.
RECURSIVE DequeExtendLeft(_, _)
DequeExtendLeft(q, xs) ==
    IF xs = <<>> THEN q
    ELSE DequeExtendLeft(DequeAppendLeft(q, Head(xs)), Tail(xs))

\* Python's s[start:stop] (0-based, negative indices count from the end).
PyIndex(n, k) == IF k < 0 THEN Max(n + k, 0) ELSE Min(k, n)
PySlice(s, start, stop) ==
    LET lo == PyIndex(Len(s), start)
        hi == PyIndex(Len(s), stop)
    IN  [j \in 1..Max(hi - lo, 0) |-> s[lo + j]]

\* Python's s[::-1].
PyReverse(s) == [j \in 1..Len(s) |-> s[Len(s) + 1 - j]]

\* is_ready
IsReady == Len(candles) = N

(***************************************************************************)
(* fetch_candles(end_time, limit): the exchange holds one row per          *)
(* open_time from 1 on and answers with the last `limit` rows whose        *)
(* open_time is at most end_time, oldest first.                            *)
(***************************************************************************)
FetchCandles(end_time, limit) ==
    LET lo == Max(1, end_time - limit + 1)
    IN  [j \in 1..(end_time - lo + 1) |-> HistoryRow(lo + j - 1)]

\* Mutant of RowsToPrepend: the slice keeps the boundary row, [-(m + 1):].
RowsToPrepend_KeepsBoundary(rows, missing_records) ==
    PyReverse(PySlice(rows, -(missing_records + 1), Len(rows)))

\* fill_candles_loop line 143: the rows a resumed tick puts ahead of the head.
RowsToPrepend(rows, missing_records) ==
    PyReverse(PySlice(rows, -(missing_records + 1), -1))

(***************************************************************************)
(* Task records.  A task is where it is suspended (pc) and the locals it   *)
(* will read when it resumes.  Task.cancel() throws CancelledError into    *)
(* the await the task is suspended at; the task runs nothing between the   *)
(* call and the throw, so the two are one step here.                       *)
(***************************************************************************)
NewFillTask == [pc |-> "sleeping", end_timestamp |-> 0, limit |-> 0]
\* ws_response is the local of _process_websocket_messages: the last message
\* iter_messages yielded, NoMessage outside that call.
NoMessage == [e |-> "no message", t |-> 0, c |-> 0]
\* cause and slept are history: what ended the last connection cycle (where
\* and with which exception, "end" for a stream that just ended) and the
\* time spent in _sleep since.
NoFailure == [at |-> "none", e |-> "none"]
NewListenTask ==
    [pc |-> "connecting", ws |-> FALSE, ws_response |-> NoMessage,
     cause |-> NoFailure, slept |-> 0]

\* A task that has left its loop: "cancelled" by a CancelledError, "failed"
\* by any other exception.  Its locals are gone with it.
FillDone == {"cancelled", "failed"}
ListenDone == {"cancelled", "failed"}
FillEnded(pc) == [NewFillTask EXCEPT !.pc = pc]
ListenEnded(pc) == [NewListenTask EXCEPT !.pc = pc]

Init ==
    /\ candles = <<>>
    /\ ws_ready_event = FALSE
    /\ fetch_candles_task = 0
    /\ fill_candles_task = 0
    /\ listen_candles_task = 0
    /\ fill = EmptyBag
    /\ listen = <<>>
    /\ delivered = <<>>
    /\ prepended = FALSE

(***************************************************************************)
(* fill_candles_loop                                                       *)
(***************************************************************************)
\* except asyncio.CancelledError: raise (and the _sleep outside the try).
FillOnCancelled(task) ==
    IF task.pc \in FillDone THEN task
    ELSE FillEnded("cancelled")

\* One task of the bag goes from the state `from` to the state `to`.
Moved(tasks, from, to) == (tasks (-) SetToBag({from})) (+) SetToBag({to})

\* Mutant of FillTick: no missing_records > 0 test, the request is issued on
\* every tick once the event is set.
FillTick_FetchesWhenFull(f) ==
    /\ BagIn(f, fill)
    /\ f.pc = "sleeping"
    /\ LET missing_records == N - Len(candles)
       IN  fill' = Moved(fill, f,
                IF ws_ready_event
                THEN IF Len(candles) = 0
                     THEN FillEnded("failed")
                     ELSE [pc |-> "fetching",
                           end_timestamp |-> candles[1].t,
                           limit |-> missing_records + 1]
                ELSE f)
    /\ UNCHANGED <<candles, ws_ready_event, fetch_candles_task, fill_candles_task,
                   listen_candles_task, listen, delivered, prepended>>

\* Mutant of FillTick: the request asks for missing_records rows, without the
\* one more for the boundary row.
FillTick_RequestsMissing(f) ==
    /\ BagIn(f, fill)
    /\ f.pc = "sleeping"
    /\ LET missing_records == N - Len(candles)
       IN  fill' = Moved(fill, f,
                IF ws_ready_event /\ missing_records > 0
                THEN IF Len(candles) = 0
                     THEN FillEnded("failed")
                     ELSE [pc |-> "fetching",
                           end_timestamp |-> candles[1].t,
                           limit |-> missing_records]
                ELSE f)
    /\ UNCHANGED <<candles, ws_ready_event, fetch_candles_task, fill_candles_task,
                   listen_candles_task, listen, delivered, prepended>>

\* Loop top after _sleep returns (or at the task's first step), up to the
\* next await: the fetch when the gate is set and records are missing, else
\* the next _sleep.  The head read of line 136 is outside the try block.
FillTick(f) ==
    /\ BagIn(f, fill)
    /\ f.pc = "sleeping"
    /\ LET missing_records == N - Len(candles)
       IN  fill' = Moved(fill, f,
                IF ws_ready_event /\ missing_records > 0
                THEN IF Len(candles) = 0
                     THEN FillEnded("failed")
                     ELSE [pc |-> "fetching",
                           end_timestamp |-> candles[1].t,
                           limit |-> missing_records + 1]
                ELSE f)
    /\ UNCHANGED <<candles, ws_ready_event, fetch_candles_task, fill_candles_task,
                   listen_candles_task, listen, delivered, prepended>>

\* Mutant of FillFetchOk: missing_records is not read again, the slice uses
\* the count the request was issued with.
FillFetchOk_StaleMissing(f) ==
    /\ BagIn(f, fill)
    /\ f.pc = "fetching"
    /\ LET rows == FetchCandles(f.end_timestamp, f.limit)
           missing_records == f.limit - 1
           new == RowsToPrepend(rows, missing_records)
       IN  /\ candles' = DequeExtendLeft(candles, new)
           /\ prepended' = (prepended \/ new # <<>>)
    /\ fill' = Moved(fill, f, NewFillTask)
    /\ UNCHANGED <<ws_ready_event, fetch_candles_task, fill_candles_task,
                   listen_candles_task, listen, delivered>>

\* fetch_candles returns: missing_records is read again, the rows are put
\* ahead of the head, and the task goes to _sleep.
FillFetchOk(f) ==
    /\ BagIn(f, fill)
    /\ f.pc = "fetching"
    /\ LET rows == FetchCandles(f.end_timestamp, f.limit)
           missing_records == N - Len(candles)
           new == RowsToPrepend(rows, missing_records)
       IN  /\ candles' = DequeExtendLeft(candles, new)
           /\ prepended' = (prepended \/ new # <<>>)
    /\ fill' = Moved(fill, f, NewFillTask)
    /\ UNCHANGED <<ws_ready_event, fetch_candles_task, fill_candles_task,
                   listen_candles_task, listen, delivered>>

\* Mutant of FillFetchFail: no except Exception clause, the exception leaves
\* the loop.
FillFetchFail_Raises(f) ==
    /\ BagIn(f, fill)
    /\ f.pc = "fetching"
    /\ fill' = Moved(fill, f, FillEnded("failed"))
    /\ UNCHANGED <<candles, ws_ready_event, fetch_candles_task, fill_candles_task,
                   listen_candles_task, listen, delivered, prepended>>

\* fetch_candles raises: logged, then _sleep.
FillFetchFail(f) ==
    /\ BagIn(f, fill)
    /\ f.pc = "fetching"
    /\ fill' = Moved(fill, f, NewFillTask)
    /\ UNCHANGED <<candles, ws_ready_event, fetch_candles_task, fill_candles_task,
                   listen_candles_task, listen, delivered, prepended>>

\* The owner of the event loop cancels a backfill task (Task.cancel()).
CancelFillTask(f) ==
    /\ BagIn(f, fill)
    /\ f.pc \notin FillDone
    /\ fill' = Moved(fill, f, FillOnCancelled(f))
    /\ UNCHANGED <<candles, ws_ready_event, fetch_candles_task, fill_candles_task,
                   listen_candles_task, listen, delivered, prepended>>

(***************************************************************************)
(* listen_for_subscriptions                                                *)
(***************************************************************************)
\* Mutant of ListenFinally: no finally clause, the loop goes round at once.
ListenFinally_SkipsClose(task) == [task EXCEPT !.pc = "connecting"]

\* finally: websocket_assistant and await websocket_assistant.disconnect()
\* reached with no exception pending; ws is None until a connect succeeded.
ListenFinally(task) ==
    IF task.ws THEN [task EXCEPT !.pc = "closing"]
    ELSE [task EXCEPT !.pc = "connecting"]

\* Mutant of ListenOnException: the ConnectionError clause sleeps as well.
ListenOnException_AlwaysSleeps(task, e) == [task EXCEPT !.pc = "sleeping"]

\* The except clauses of the loop: a ConnectionError is logged and falls
\* through to finally; any other Exception is logged and followed by _sleep.
ListenOnException(task, e) ==
    IF e = "conn" THEN ListenFinally(task)
    ELSE [task EXCEPT !.pc = "sleeping"]

\* Mutant of ListenOnCancelled: no except asyncio.CancelledError clause, so
\* the except Exception clause takes the cancellation for a failure to retry.
ListenOnCancelled_Retries(task) ==
    IF task.pc \in ListenDone \/ task.pc = "closing_cancelled" THEN task
    ELSE IF task.pc = "closing" THEN ListenEnded("cancelled")
    ELSE ListenOnException(task, "other")

\* except asyncio.CancelledError: raise, through finally.  Thrown inside the
\* disconnect of finally, or with ws None, it leaves the task at once.
ListenOnCancelled(task) ==
    IF task.pc \in ListenDone \/ task.pc = "closing_cancelled" THEN task
    ELSE IF task.pc = "closing" \/ ~task.ws
    THEN ListenEnded("cancelled")
    ELSE [NewListenTask EXCEPT !.pc = "closing_cancelled", !.ws = TRUE]

\* Mutant of ProcessKline: a message with the tail's open_time replaces the tail.
ProcessKline_Overwrites(q, msg) ==
    IF Len(q) = 0 THEN DequeAppend(q, msg)
    ELSE IF msg.t # q[Len(q)].t THEN DequeAppend(q, msg)
    ELSE [q EXCEPT ![Len(q)] = msg]

\* Mutant of ProcessKline: a message with the tail's open_time pops the tail
\* (to replace it) and the replacement is never appended.
ProcessKline_PopsRepeat(q, msg) ==
    IF Len(q) = 0 THEN DequeAppend(q, msg)
    ELSE IF msg.t # q[Len(q)].t THEN DequeAppend(q, msg)
    ELSE SubSeq(q, 1, Len(q) - 1)

\* _process_websocket_messages lines 223-230: the deque after one kline message.
ProcessKline(q, msg) ==
    IF Len(q) = 0 THEN DequeAppend(q, msg)
    ELSE IF msg.t # q[Len(q)].t THEN DequeAppend(q, msg)
    ELSE q

Errors == {"conn", "other"}

ListenSame == UNCHANGED <<candles, ws_ready_event, fetch_candles_task,
                          fill_candles_task, listen_candles_task, fill,
                          delivered, prepended>>

Runs(i, pc) ==
    /\ i \in DOMAIN listen
    /\ listen[i].pc = pc

\* _connected_websocket_assistant returns.
ListenConnectOk(i) ==
    /\ Runs(i, "connecting")
    /\ listen' = [listen EXCEPT ![i] =
            [NewListenTask EXCEPT !.pc = "subscribing", !.ws = TRUE]]
    /\ ListenSame

\* _connected_websocket_assistant raises; ws keeps its previous value.
ListenConnectFail(i, e) ==
    /\ Runs(i, "connecting")
    /\ listen' = [listen EXCEPT ![i] =
            ListenOnException(
                [@ EXCEPT !.cause = [at |-> "connecting", e |-> e], !.slept = 0], e)]
    /\ ListenSame

\* ws.send of the subscribe request returns.
ListenSubscribeOk(i) ==
    /\ Runs(i, "subscribing")
    /\ listen' = [listen EXCEPT ![i] = [@ EXCEPT !.pc = "streaming"]]
    /\ ListenSame

\* ws.send raises: logged, then await self._ws_ready_event.wait().
ListenSubscribeFail(i, e) ==
    /\ Runs(i, "subscribing")
    /\ listen' = [listen EXCEPT ![i] = 
            [@ EXCEPT !.pc = "waiting_ready",
                      !.cause = [at |-> "subscribing", e |-> e]]]
    /\ ListenSame

\* The wait on the event returns once the event is set; the exception is
\* raised again and reaches the except clauses of the loop.
ListenSubscribeReraise(i) ==
    /\ Runs(i, "waiting_ready")
    /\ ws_ready_event
    /\ listen' = [listen EXCEPT ![i] = ListenOnException(@, @.cause.e)]
    /\ ListenSame

\* iter_messages yields a kline message.  The stream delivers no open_time
\* older than the tail's.
ListenKline(i, t, c) ==
    /\ Runs(i, "streaming")
    /\ t \in 1..MaxT
    /\ c \in LiveCloses
    /\ IF Len(candles) > 0 /\ t = candles[Len(candles)].t THEN TRUE
       ELSE c = 1 /\ (Len(candles) > 0 => t > candles[Len(candles)].t)
    /\ candles' = ProcessKline(candles, Candle(t, c))
    /\ ws_ready_event' = TRUE
    /\ listen' = [listen EXCEPT ![i] =
            [@ EXCEPT !.ws_response = [e |-> "kline", t |-> t, c |-> c]]]
    /\ delivered' = IF candles' # candles THEN Append(delivered, Candle(t, c))
                    ELSE delivered
    /\ UNCHANGED <<fetch_candles_task, fill_candles_task, listen_candles_task,
                   fill, prepended>>

\* Mutant of ListenOtherMessage: the event is set after every message, kline
\* or not.
ListenOtherMessage_SetsEvent(i, e) ==
    /\ Runs(i, "streaming")
    /\ e \in {"other", "none"}
    /\ listen' = [listen EXCEPT ![i] =
            [@ EXCEPT !.ws_response = [e |-> e, t |-> 0, c |-> 0]]]
    /\ ws_ready_event' = TRUE
    /\ UNCHANGED <<candles, fetch_candles_task, fill_candles_task,
                   listen_candles_task, fill, delivered, prepended>>

\* Mutant of ListenOtherMessage: a message whose data is None is taken for
\* the end of the stream.
ListenOtherMessage_NoneDisconnects(i, e) ==
    /\ Runs(i, "streaming")
    /\ e \in {"other", "none"}
    /\ listen' = [listen EXCEPT ![i] =
            IF e = "none"
            THEN ListenFinally([@ EXCEPT !.ws_response = NoMessage,
                                        !.cause = [at |-> "streaming", e |-> "end"]])
            ELSE [@ EXCEPT !.ws_response = [e |-> e, t |-> 0, c |-> 0]]]
    /\ ListenSame

\* iter_messages yields a message that is no kline event ("other") or whose
\* data is None ("none").
ListenOtherMessage(i, e) ==
    /\ Runs(i, "streaming")
    /\ e \in {"other", "none"}
    /\ listen' = [listen EXCEPT ![i] =
            [@ EXCEPT !.ws_response = [e |-> e, t |-> 0, c |-> 0]]]
    /\ ListenSame

\* iter_messages ends: no exception, straight to finally.
ListenStreamEnd(i) ==
    /\ Runs(i, "streaming")
    /\ listen' = [listen EXCEPT ![i] =
            ListenFinally([@ EXCEPT !.ws_response = NoMessage,
                                    !.cause = [at |-> "streaming", e |-> "end"]])]
    /\ ListenSame

\* iter_messages or the handling of a message raises.
ListenStreamFail(i, e) ==
    /\ Runs(i, "streaming")
    /\ listen' = [listen EXCEPT ![i] =
            ListenOnException(
                [@ EXCEPT !.ws_response = NoMessage,
                          !.cause = [at |-> "streaming", e |-> e]], e)]
    /\ ListenSame

\* _sleep(1.0) of the except Exception clause returns; then finally.
ListenSleepDone(i) ==
    /\ Runs(i, "sleeping")
    /\ listen' = [listen EXCEPT ![i] =
            ListenFinally([@ EXCEPT !.slept = @ + RetryDelay])]
    /\ ListenSame

\* disconnect returns: the loop goes round, or the pending CancelledError
\* leaves the task.
ListenCloseOk(i) ==
    /\ i \in DOMAIN listen
    /\ \/ /\ listen[i].pc = "closing"
          /\ listen' = [listen EXCEPT ![i] = [@ EXCEPT !.pc = "connecting"]]
       \/ /\ listen[i].pc = "closing_cancelled"
          /\ listen' = [listen EXCEPT ![i] = ListenEnded("cancelled")]
    /\ ListenSame

\* disconnect raises inside finally: nothing catches it and the task ends,
\* with that exception, or as cancelled when it was being cancelled.
ListenCloseFail(i) ==
    /\ i \in DOMAIN listen
    /\ \/ /\ listen[i].pc = "closing"
          /\ listen' = [listen EXCEPT ![i] = ListenEnded("failed")]
       \/ /\ listen[i].pc = "closing_cancelled"
          /\ listen' = [listen EXCEPT ![i] = ListenEnded("cancelled")]
    /\ ListenSame

(***************************************************************************)
(* start_network / stop_network                                            *)
(***************************************************************************)
\* stop_network cancels the tasks its two handles name and clears the handles.
\* It reads _fetch_candles_task; start_network stores the backfill task in
\* _fill_candles_task, so the first handle is None whenever it is read.
\* Nothing ever stores a task in _fetch_candles_task, so the handle names no
\* task of the bag.
StopFillTasks(tasks, handle) ==
    IF handle # 0
    THEN Moved(tasks, handle, FillOnCancelled(handle))
    ELSE tasks

StopListenTasks(tasks, handle) ==
    IF handle # 0
    THEN [tasks EXCEPT ![handle] = ListenOnCancelled(@)]
    ELSE tasks

StopNetwork ==
    /\ fill' = StopFillTasks(fill, fetch_candles_task)
    /\ fetch_candles_task' = 0
    /\ listen' = StopListenTasks(listen, listen_candles_task)
    /\ listen_candles_task' = 0
    /\ UNCHANGED <<candles, ws_ready_event, fill_candles_task, delivered, prepended>>

StartNetwork ==
    /\ BagCardinality(fill) < MaxStarts
    /\ fill' = StopFillTasks(fill, fetch_candles_task) (+) SetToBag({NewFillTask})
    /\ fetch_candles_task' = 0
    /\ fill_candles_task' = BagCardinality(fill) + 1
    /\ listen' = Append(StopListenTasks(listen, listen_candles_task), NewListenTask)
    /\ listen_candles_task' = Len(listen) + 1
    /\ UNCHANGED <<candles, ws_ready_event, delivered, prepended>>

(***************************************************************************)
(* Specifications                                                          *)
(***************************************************************************)
Tasks == 1..MaxStarts

\* A step of some backfill task.
FillStep ==
    \E f \in BagToSet(fill) : FillTick(f) \/ FillFetchOk(f) \/ FillFetchFail(f)

ListenStep(i) ==
    \/ ListenConnectOk(i)
    \/ \E e \in Errors : ListenConnectFail(i, e)
    \/ ListenSubscribeOk(i)
    \/ \E e \in Errors : ListenSubscribeFail(i, e)
    \/ ListenSubscribeReraise(i)
    \/ \E t \in 1..MaxT, c \in LiveCloses : ListenKline(i, t, c)
    \/ \E e \in {"other", "none"} : ListenOtherMessage(i, e)
    \/ ListenStreamEnd(i)
    \/ \E e \in Errors : ListenStreamFail(i, e)
    \/ ListenSleepDone(i)
    \/ ListenCloseOk(i)
    \/ ListenCloseFail(i)

Next ==
    \/ StartNetwork
    \/ StopNetwork
    \/ \E f \in BagToSet(fill) : CancelFillTask(f)
    \/ \E f \in BagToSet(fill) : FillTick(f)
    \/ \E f \in BagToSet(fill) : FillFetchOk(f)
    \/ \E f \in BagToSet(fill) : FillFetchFail(f)
    \/ \E i \in Tasks : ListenStep(i)

Spec == Init /\ [][Next]_vars

\* The event loop resumes every task whose await has completed.
FairSpec ==
    /\ Spec
    /\ WF_vars(FillStep)
    /\ \A i \in Tasks : WF_vars(ListenStep(i))

\* FairSpec with an exchange that does not refuse the historical request for
\* ever: a fetch that is awaited again and again eventually returns.
FetchFairSpec ==
    /\ FairSpec
    /\ SF_vars(\E f \in BagToSet(fill) : FillFetchOk(f))

(***************************************************************************)
(* Properties                                                              *)
(***************************************************************************)
Tail1(q) == q[Len(q)]

\* The tasks still in their loop: launched, not ended, not being cancelled.
RunningFillTasks ==
    LET live == {f \in BagToSet(fill) : f.pc \notin FillDone}
    IN  BagCardinality([f \in live |-> fill[f]])
RunningListenTasks ==
    Cardinality({i \in DOMAIN listen :
                    listen[i].pc \notin ListenDone \cup {"closing_cancelled"}})
CancelledFillTasks == CopiesIn(FillEnded("cancelled"), fill)

\* Where listener i is, "not launched" before its start_network.
ListenAt(i) == IF i \in DOMAIN listen THEN listen[i].pc ELSE "not launched"

\* C1: the open_times of the buffer are strictly increasing from head to
\* tail in every reachable state.
C1_StrictlyIncreasing ==
    \A j \in 1..(Len(candles) - 1) : candles[j].t < candles[j + 1].t

\* C2: at most one backfill loop and at most one listener loop run at any
\* time, and none runs once stop_network has cleared the handles.
C2_AtMostOneOfEach ==
    /\ RunningFillTasks <= 1
    /\ RunningListenTasks <= 1
    /\ listen_candles_task = 0 => RunningFillTasks = 0 /\ RunningListenTasks = 0

\* C3: a listener whose subscribe failed with an exception that is no
\* ConnectionError eventually makes its next connect attempt, whatever the
\* readiness event is (unless it is cancelled or its disconnect raises).
C3_SubscribeFailureRetries ==
    \A i \in Tasks :
        (ListenAt(i) = "waiting_ready" /\ listen[i].cause.e = "other")
        ~> (ListenAt(i) \in {"connecting", "closing_cancelled", "cancelled", "failed"})

\* Supporting C3: with the readiness event set the same listener does make
\* its next connect attempt (checked under FairSpec).
C3_RetriesOnceReady ==
    \A i \in Tasks :
        (ListenAt(i) = "waiting_ready" /\ listen[i].cause.e = "other" /\ ws_ready_event)
        ~> (ListenAt(i) \in {"connecting", "closing_cancelled", "cancelled", "failed"})

\* C4: no loop ends on a failure: a task that has left its loop was cancelled.
C4_LoopsEndOnlyByCancellation ==
    /\ \A i \in DOMAIN listen : listen[i].pc # "failed"
    /\ \A f \in BagToSet(fill) : f.pc # "failed"

\* C5: the buffer never shrinks, and once is_ready is true it stays true.
C5_ReadinessMonotonic ==
    [][Len(candles') >= Len(candles) /\ (IsReady => IsReady')]_vars

C5_Witness ==
    /\ IsReady
    /\ prepended
    /\ Len(delivered) > 1
    /\ \E i \in DOMAIN listen : listen[i].pc = "streaming"

\* C6: a listener about to connect again has spent no time in _sleep when
\* its last cycle ended on a ConnectionError or on the end of the stream,
\* and exactly one RetryDelay when it ended on any other exception.
C6_DelayByFailureClass ==
    \A i \in DOMAIN listen :
        listen[i].pc = "connecting" =>
            /\ listen[i].cause.e \in {"conn", "end"} => listen[i].slept = 0
            /\ listen[i].cause.e = "other" => listen[i].slept = RetryDelay

C6_Witness ==
    \E i \in DOMAIN listen :
        /\ listen[i].pc = "connecting"
        /\ listen[i].cause = [at |-> "streaming", e |-> "conn"]
        /\ listen[i].slept = 0

\* C7: a cancelled loop is out of its loop for good: the cancel takes a
\* listener to its disconnect or to its end and a backfill task to its end,
\* and from there it connects, subscribes, fetches and writes no more.
C7_CancellationIsFinal ==
    [][/\ \A i \in DOMAIN listen :
            /\ (listen_candles_task = i /\ listen_candles_task' # i)
                   => listen'[i].pc \in {"closing_cancelled", "cancelled", "failed"}
            /\ listen[i].pc = "closing_cancelled"
                   => /\ listen'[i].pc \in {"closing_cancelled", "cancelled"}
                      /\ candles' = candles \/ listen'[i] = listen[i]
            /\ listen[i].pc = "cancelled" => listen'[i] = listen[i]
       /\ CancelledFillTasks' >= CancelledFillTasks
       /\ \A f \in BagToSet(fill) :
            CancelFillTask(f) => CancelledFillTasks' = CancelledFillTasks + 1
      ]_vars

C7_Witness ==
    /\ \E i \in DOMAIN listen : listen[i].pc = "closing_cancelled"
    /\ CancelledFillTasks > 0
    /\ RunningListenTasks = 1

\* C8: a kline message with the open_time of the tail record changes
\* nothing in the buffer.
C8_RepeatedOpenTimeIsDropped ==
    [][\A i \in DOMAIN listen, c \in LiveCloses :
            (Len(candles) > 0 /\ ListenKline(i, Tail1(candles).t, c))
                => candles' = candles]_vars

C8_Witness ==
    \E i \in DOMAIN listen :
        /\ listen[i].pc = "streaming"
        /\ Len(candles) > 0
        /\ listen[i].ws_response.e = "kline"
        /\ listen[i].ws_response.t = Tail1(candles).t
        /\ listen[i].ws_response.c # Tail1(candles).c
        /\ Tail1(candles) = Tail1(delivered)

\* C9: a fetch that returns for the boundary b puts the rows just before b,
\* as many as are missing now and the response holds, ahead of the buffer,
\* oldest first, and keeps every buffered record.
C9_BackfillPrepends ==
    [][\A f \in BagToSet(fill) :
            FillFetchOk(f) =>
                LET b == f.end_timestamp
                    m == N - Len(candles)
                    available == Min(f.limit, b) - 1
                    k == Min(m, available)
                IN  /\ candles' = [j \in 1..k |-> HistoryRow(b - k + j - 1)] \o candles
                    /\ Len(candles') = Min(N, Len(candles) + available)]_vars

C9_Witness ==
    /\ prepended
    /\ Len(delivered) = 1
    /\ Len(candles) = N
    /\ \A j \in 1..(N - 1) : candles[j] = HistoryRow(j)
    /\ candles[N] = Candle(N, 1)

\* C10: while no backfill has inserted anything, the buffer is the last
\* min(k, N) of the k records the stream made the listener append, in
\* that order, and is_ready is true exactly when k >= N.
C10_LiveOnlyBuffer ==
    ~prepended =>
        LET k == Len(delivered)
        IN  /\ candles = SubSeq(delivered, k - Min(k, N) + 1, k)
            /\ IsReady <=> k >= N

C10_Witness ==
    /\ ~prepended
    /\ Len(delivered) = N + 1
    /\ IsReady

\* C11: once the stream has delivered a record, a fetch that returns as many
\* rows as it asked for (limit = missing + 1) fills the buffer in that one
\* tick, which is within ceil(N / limit) ticks; and with a backfill loop
\* running and a history at least N rows deep the buffer does become full
\* (or every backfill loop is cancelled first).
C11_BackfillReachesCapacity ==
    /\ [][\A f \in BagToSet(fill) :
            (FillFetchOk(f) /\ Len(FetchCandles(f.end_timestamp, f.limit)) = f.limit)
                => /\ IsReady'
                   /\ 1 <= (N + f.limit - 1) \div f.limit]_vars
    /\ (ws_ready_event /\ RunningFillTasks > 0 /\ Len(candles) > 0 /\ candles[1].t >= N)
           ~> (IsReady \/ RunningFillTasks = 0)

C11_Witness ==
    /\ IsReady
    /\ prepended
    /\ candles[1] = HistoryRow(MaxT - N + 1)
    /\ Tail1(candles).t = MaxT
    /\ RunningFillTasks > 0

\* C12: the buffer never holds more than N records, whatever the order of
\* the appends at the tail and the prepends at the head.
C12_SizeAtMostCapacity == Len(candles) <= N

C12_Witness ==
    /\ IsReady
    /\ prepended
    /\ Len(delivered) = N
    /\ Tail1(candles).t = MaxT

\* C13: a step that issues a historical request (one more task suspended in
\* fetch_candles) is taken with the readiness event set, after the stream's
\* first record, with the buffer not full, and the request carries the head's
\* open_time as end_time and missing + 1 as limit.
C13_FetchOnlyWhenReadyAndMissing ==
    [][\A g \in BagToSet(fill') :
            (g.pc = "fetching" /\ CopiesIn(g, fill') > CopiesIn(g, fill))
                => /\ ws_ready_event
                   /\ Len(delivered) > 0
                   /\ N - Len(candles) > 0
                   /\ g.end_timestamp = candles[1].t
                   /\ g.limit = (N - Len(candles)) + 1]_vars

C13_Witness ==
    /\ ws_ready_event
    /\ Len(candles) = 1
    /\ \E f \in BagToSet(fill) :
            /\ f.pc = "fetching"
            /\ f.end_timestamp = candles[1].t
            /\ f.limit = N

\* C14: a returning fetch inserts no more rows than the buffer has free at
\* that instant, so every record buffered before the prepend is still there
\* after it, at the tail end and in order; a buffer that became full during
\* the fetch is left as it is.
C14_PrependEvictsNothing ==
    [][\A f \in BagToSet(fill) :
            FillFetchOk(f) =>
                LET inserted == Len(candles') - Len(candles)
                IN  /\ inserted >= 0
                    /\ inserted <= N - Len(candles)
                    /\ SubSeq(candles', inserted + 1, Len(candles')) = candles
                    /\ IsReady => candles' = candles]_vars

\* The stream filled the buffer while a request issued for N - 1 rows was
\* suspended: the request returns into a full buffer.
C14_Witness ==
    /\ IsReady
    /\ ~prepended
    /\ Len(delivered) = N
    /\ \E f \in BagToSet(fill) :
            /\ f.pc = "fetching"
            /\ f.limit = N
            /\ f.end_timestamp = candles[1].t

\* C15: a listener leaves the streaming of messages only towards the
\* disconnect of its connection (directly, after the _sleep of the except
\* clause, or with a cancellation pending), and a listener that holds a
\* connection makes its next connect attempt only from that disconnect.
C15_CloseBeforeReconnect ==
    [][\A i \in DOMAIN listen :
            /\ listen[i].pc = "streaming"
                   => listen'[i].pc \in {"streaming", "sleeping", "closing",
                                         "closing_cancelled"}
            /\ (listen[i].pc = "sleeping" /\ listen[i].ws)
                   => listen'[i].pc \in {"sleeping", "closing", "closing_cancelled"}
            /\ (listen[i].ws /\ listen[i].pc # "connecting"
                    /\ listen'[i].pc = "connecting")
                   => listen[i].pc = "closing"]_vars

C15_Witness ==
    \E i \in DOMAIN listen :
        /\ listen[i].pc = "connecting"
        /\ listen[i].ws
        /\ listen[i].cause = [at |-> "streaming", e |-> "end"]
        /\ Len(delivered) > 0

\* C16: a historical request that fails leaves the buffer and the readiness
\* event as they are and ends no task: the task is back in the _sleep of
\* RetryDelay at the bottom of its loop, from where it ticks again.
C16_FetchFailureIsNotFatal ==
    [][\A f \in BagToSet(fill) :
            FillFetchFail(f) =>
                /\ candles' = candles
                /\ ws_ready_event' = ws_ready_event
                /\ CopiesIn(FillEnded("failed"), fill') = CopiesIn(FillEnded("failed"), fill)
                /\ RunningFillTasks' = RunningFillTasks
                /\ CopiesIn(NewFillTask, fill') = CopiesIn(NewFillTask, fill) + 1]_vars

\* The only backfill task is suspended in a request, with one record
\* buffered and the listener gone: the request fails or returns.
C16_Witness ==
    /\ ~prepended
    /\ Len(candles) = 1
    /\ BagCardinality(fill) = 1
    /\ \E f \in BagToSet(fill) : f.pc = "fetching"
    /\ \A i \in DOMAIN listen : listen[i].pc \in ListenDone

\* C17: a message that is no kline event, or whose data is None, changes
\* neither the buffer nor the readiness event, and the listener that read
\* it goes on streaming.
C17_OtherMessagesIgnored ==
    [][\A i \in DOMAIN listen, e \in {"other", "none"} :
            ListenOtherMessage(i, e) =>
                /\ candles' = candles
                /\ ws_ready_event' = ws_ready_event
                /\ listen'[i].pc = "streaming"
                /\ listen'[i].ws = listen[i].ws]_vars

C17_Witness ==
    \E i \in DOMAIN listen :
        /\ listen[i].pc = "streaming"
        /\ listen[i].ws_response.e = "none"
        /\ ws_ready_event
        /\ Len(candles) = 2

\* C18: start_network on a feed that already ran leaves the buffer empty and
\* the readiness event clear.
C18_RestartResetsBufferAndGate ==
    [][(StartNetwork /\ BagCardinality(fill) > 0)
            => candles' = <<>> /\ ~ws_ready_event']_vars

\* C19: the readiness event is set exactly when the buffer holds a record,
\* so the head read of a backfill tick (outside the try block) finds a head:
\* no backfill task has ended on that read.
C19_GateIffNonEmpty ==
    /\ ws_ready_event <=> Len(candles) > 0
    /\ CopiesIn(FillEnded("failed"), fill) = 0

C19_Witness ==
    /\ ws_ready_event
    /\ Len(candles) = 2
    /\ ~prepended
    /\ \E f \in BagToSet(fill) :
            /\ f.pc = "fetching"
            /\ f.end_timestamp = candles[1].t
            /\ f.limit = (N - Len(candles)) + 1

\* C20: a returning fetch that inserts at least one row finds the head it
\* read its boundary from: the head's open_time is still the request's
\* end_time.
C20_BoundaryStillHead ==
    [][\A f \in BagToSet(fill) :
            (FillFetchOk(f) /\ candles' # candles)
                => candles[1].t = f.end_timestamp]_vars

====
